---- MODULE Spec2Model ----
(***************************************************************************)
(* funcversion: versioned dispatch of functions and methods.               *)
(*                                                                         *)
(* The model follows src/funcversion/core.py: the process-wide registry    *)
(* _version_registry, one VersionedFunction handle per operation key, the  *)
(* decorator version(), the descriptor __get__ with its MRO merge, and the *)
(* handle operations add_version, remove_version, deprecate_version,       *)
(* available_versions, _get_latest_version and __call__.                   *)
(*                                                                         *)
(* A version id (a string such as "1.0.0") is the sequence of its          *)
(* dot-separated components; a component that is not a number is -1.       *)
(* A version map (a Python dict, which keeps insertion order) is a         *)
(* sequence of records [v |-> id, f |-> implementation].                   *)
(***************************************************************************)
EXTENDS Integers, Sequences, FiniteSets, TLC

VARIABLES
    registry,    \* _version_registry: key -> version map
    versions,    \* handle.versions of the VersionedFunction of each key
    attached,    \* handle.versions is the registry's own dict object
    deprecated,  \* the implementations carrying the attribute _deprecated
    reg,         \* history: per key, the entries registered and not removed
    flagged,     \* history: <<key, id>> entries deprecate was called for
    removed,     \* history: <<key, id>> removed and not added to key again
    nops,        \* number of mutating operations performed so far
    pc,          \* threads: position of each thread in add_version
    tver,        \* threads: the version id each thread registers
    tout,        \* threads: the outcome of each thread's add_version
    last,        \* history: the last mutating operation and its outcome
    call         \* threads: each calling thread's position in a call

vars == <<registry, versions, attached, deprecated, reg, flagged, removed,
          nops, pc, tver, tout, last, call>>

----------------------------------------------------------------------------
(* Bounds of the model *)

\* successful mutations (register, add, remove, deprecate) of the free
\* function per behaviour
MaxOps == 3

\* successful mutations of the methods per behaviour
MaxMethodOps == 1

\* threads calling add_version concurrently
NThreads == 3

\* threads calling an operation concurrently
NCallers == 2

----------------------------------------------------------------------------
(* The program under analysis: one free function and a class hierarchy    *)
(*   class G;  class P(G);  class C(P);  class S;  class M(G, S)           *)
(* G, P, C and S each declare the member `method`; M declares nothing.     *)

FreeKeys == {"f"}

ClassKeys == {"G", "P", "C", "S"}

Keys == FreeKeys \cup ClassKeys

Types == {"G", "P", "C", "S", "M"}

\* owner.mro(), without `object`
MRO(T) ==
    CASE T = "G" -> <<"G">>
      [] T = "P" -> <<"P", "G">>
      [] T = "C" -> <<"C", "P", "G">>
      [] T = "S" -> <<"S">>
      [] T = "M" -> <<"M", "G", "S">>

\* The version ids used as inputs: "1.0", "1.0.0", "2.0.0" and "invalid".
V10 == <<1, 0>>

V100 == <<1, 0, 0>>

V200 == <<2, 0, 0>>

VBad == <<-1>>

Ids == {V10, V100, V200, VBad}

\* version=None
NoVersion == <<>>

\* implementations passed to add_version / the decorator after start-up
NewImpls == {"x", "y"}

\* the function a key declares at start-up is named after the key
Impls == Keys \cup NewImpls

NoImpl == "none"

----------------------------------------------------------------------------
(* packaging.version: validation and ordering of version ids *)

\* Version(version_id) / pkg_version.parse(version_id) accept the id
IsValid(v) == Len(v) >= 1 /\ \A i \in 1..Len(v) : v[i] >= 0

RECURSIVE StripZeros(_)
\* the comparison key of a release: trailing zero components dropped
StripZeros(v) ==
    IF Len(v) = 0 THEN v
    ELSE IF v[Len(v)] = 0 THEN StripZeros(SubSeq(v, 1, Len(v) - 1))
    ELSE v

\* tuple comparison a < b
TupleLess(a, b) ==
    \/ /\ Len(a) < Len(b)
       /\ \A i \in 1..Len(a) : a[i] = b[i]
    \/ \E i \in 1..Len(a) :
          /\ i <= Len(b)
          /\ \A j \in 1..(i - 1) : a[j] = b[j]
          /\ a[i] < b[i]

\* parse(a) < parse(b)
VersionLess(a, b) == TupleLess(StripZeros(a), StripZeros(b))

\* parse(a) == parse(b)
VersionEq(a, b) == StripZeros(a) = StripZeros(b)

----------------------------------------------------------------------------
(* Python dict operations on version maps *)

EmptyMap == <<>>

\* m.keys(), in insertion order
KeySeq(m) == [i \in 1..Len(m) |-> m[i].v]

KeySet(m) == {m[i].v : i \in 1..Len(m)}

\* version_id in m
Has(m, v) == \E i \in 1..Len(m) : m[i].v = v

\* m[version_id]
Lookup(m, v) ==
    IF Has(m, v) THEN m[CHOOSE i \in 1..Len(m) : m[i].v = v].f ELSE NoImpl

\* m[version_id] = func
Put(m, v, f) ==
    IF Has(m, v)
    THEN [i \in 1..Len(m) |-> IF m[i].v = v THEN [v |-> v, f |-> f] ELSE m[i]]
    ELSE Append(m, [v |-> v, f |-> f])

\* a delete that drops every entry from the removed one on
DelFrom(m, v) ==
    SubSeq(m, 1, Cardinality({i \in 1..Len(m) :
                                 \A j \in 1..i : m[j].v # v}))

\* del m[version_id]
Del(m, v) == SelectSeq(m, LAMBDA e : e.v # v)

RECURSIVE Update(_, _)
\* m.update(other)
Update(m, other) ==
    IF Len(other) = 0 THEN m
    ELSE Update(Put(m, other[1].v, other[1].f), Tail(other))

----------------------------------------------------------------------------
(* sorted(keys, key=parse): Python's sort is stable *)

\* s is ascending; v goes after every element that is not greater than v
InsertAsc(s, v) ==
    LET n == Cardinality({i \in 1..Len(s) : ~VersionLess(v, s[i])})
    IN  SubSeq(s, 1, n) \o <<v>> \o SubSeq(s, n + 1, Len(s))

\* s is descending; v goes after every element that is not less than v
InsertDesc(s, v) ==
    LET n == Cardinality({i \in 1..Len(s) : ~VersionLess(s[i], v)})
    IN  SubSeq(s, 1, n) \o <<v>> \o SubSeq(s, n + 1, Len(s))

RECURSIVE SortAscFrom(_, _)
SortAscFrom(done, todo) ==
    IF Len(todo) = 0 THEN done
    ELSE SortAscFrom(InsertAsc(done, todo[1]), Tail(todo))

RECURSIVE SortDescFrom(_, _)
SortDescFrom(done, todo) ==
    IF Len(todo) = 0 THEN done
    ELSE SortDescFrom(InsertDesc(done, todo[1]), Tail(todo))

\* sorted(keys, key=parse)
SortedAsc(keys) == SortAscFrom(<<>>, keys)

\* sorted(keys, key=parse, reverse=True)
SortedDesc(keys) == SortDescFrom(<<>>, keys)

----------------------------------------------------------------------------
(* VersionedFunction: the pure parts *)

\* a listing that keeps the insertion order of the map
AvailableVersionsUnsorted(m) == KeySeq(m)

\* available_versions(): the ids of a handle's map, ascending
AvailableVersions(m) == SortedAsc(KeySeq(m))

\* a choice of the lowest id instead of the highest
GetLowestVersion(m) == SortedAsc(KeySeq(m))[1]

\* _get_latest_version(), called on a map that is not empty
GetLatestVersion(m) == SortedDesc(KeySeq(m))[1]

\* deprecated_versions: the ids of the map whose function carries the flag
\* deprecate_version sets, ascending
DeprecatedVersions(m) ==
    SortedAsc(SelectSeq(KeySeq(m), LAMBDA v : Lookup(m, v) \in deprecated))

\* the outcomes of an operation
Outcomes == {"ok", "NoVersionsFound", "VersionNotFound", "VersionExists",
             "InvalidVersion"}

\* the warning __call__ emits for a deprecated version
Notice(name, ver) == [name |-> name, ver |-> ver]

\* a call that warns for a deprecated version on the unversioned path too
CallResultWarnsLatest(name, m, ver) ==
    IF Len(m) = 0
    THEN [out |-> "NoVersionsFound", impl |-> NoImpl, notices |-> <<>>]
    ELSE LET w == IF ver # NoVersion THEN ver ELSE GetLatestVersion(m)
         IN  IF Has(m, w)
             THEN [out |-> "ok", impl |-> Lookup(m, w),
                   notices |-> IF Lookup(m, w) \in deprecated
                               THEN <<Notice(name, w)>>
                               ELSE <<>>]
             ELSE [out |-> "VersionNotFound", impl |-> NoImpl,
                   notices |-> <<>>]

\* a call that falls back to the latest version when the requested one is
\* absent
CallResultFallsBack(name, m, ver) ==
    IF Len(m) = 0
    THEN [out |-> "NoVersionsFound", impl |-> NoImpl, notices |-> <<>>]
    ELSE IF ver # NoVersion /\ Has(m, ver)
    THEN [out |-> "ok", impl |-> Lookup(m, ver),
          notices |-> IF Lookup(m, ver) \in deprecated
                      THEN <<Notice(name, ver)>>
                      ELSE <<>>]
    ELSE [out |-> "ok", impl |-> Lookup(m, GetLatestVersion(m)),
          notices |-> <<>>]

\* a call that looks an explicit version up before it checks for emptiness
CallResultLookupFirst(name, m, ver) ==
    IF ver # NoVersion
    THEN IF Has(m, ver)
         THEN [out |-> "ok", impl |-> Lookup(m, ver),
               notices |-> IF Lookup(m, ver) \in deprecated
                           THEN <<Notice(name, ver)>>
                           ELSE <<>>]
         ELSE [out |-> "VersionNotFound", impl |-> NoImpl, notices |-> <<>>]
    ELSE IF Len(m) = 0
    THEN [out |-> "NoVersionsFound", impl |-> NoImpl, notices |-> <<>>]
    ELSE [out |-> "ok", impl |-> Lookup(m, GetLatestVersion(m)),
          notices |-> <<>>]

\* __call__(version=ver) on the handle called name whose map is m: what is
\* raised, which implementation runs, which deprecation warnings are emitted
CallResult(name, m, ver) ==
    IF Len(m) = 0
    THEN [out |-> "NoVersionsFound", impl |-> NoImpl, notices |-> <<>>]
    ELSE IF ver # NoVersion
    THEN IF Has(m, ver)
         THEN [out |-> "ok", impl |-> Lookup(m, ver),
               notices |-> IF Lookup(m, ver) \in deprecated
                           THEN <<Notice(name, ver)>>
                           ELSE <<>>]
         ELSE [out |-> "VersionNotFound", impl |-> NoImpl, notices |-> <<>>]
    ELSE [out |-> "ok", impl |-> Lookup(m, GetLatestVersion(m)),
          notices |-> <<>>]

\* an add_version without the duplicate check of line 94
AddOutcomeUnchecked(m, v) == IF ~IsValid(v) THEN "InvalidVersion" ELSE "ok"

\* add_version(version_id, func) on a map m: the outcome
AddOutcome(m, v) ==
    IF Has(m, v) THEN "VersionExists"
    ELSE IF ~IsValid(v) THEN "InvalidVersion"
    ELSE "ok"

\* the decorator version(version_id) for key k: the outcome
RegisterOutcome(k, v) ==
    IF ~IsValid(v) THEN "InvalidVersion"
    ELSE IF Has(registry[k], v) THEN "VersionExists"
    ELSE "ok"

\* remove_version / deprecate_version on a map m: the outcome
FindOutcome(m, v) == IF Has(m, v) THEN "ok" ELSE "VersionNotFound"

----------------------------------------------------------------------------
(* Attribute access: the descriptor protocol *)

\* the class whose __dict__ holds the member found by looking it up on T
HandleOf(T) ==
    LET s == MRO(T)
        i == CHOOSE i \in 1..Len(s) :
                 /\ s[i] \in ClassKeys
                 /\ \A j \in 1..(i - 1) : s[j] \notin ClassKeys
    IN  s[i]

RECURSIVE MergeMro(_, _)
\* the loop of _get_versions_in_mro over the rest of the MRO
MergeMro(result, classes) ==
    IF Len(classes) = 0 THEN result
    ELSE IF classes[1] \in ClassKeys
    THEN MergeMro(Update(result, versions[classes[1]]), Tail(classes))
    ELSE MergeMro(result, Tail(classes))

\* _get_versions_in_mro(owner)
GetVersionsInMro(T) == MergeMro(EmptyMap, MRO(T))

\* what an operation is reached through: the free function's name, or a type
Accessors == FreeKeys \cup Types

\* the handle an accessor yields
Target(a) == IF a \in Types THEN HandleOf(a) ELSE a

\* handle.versions of every key after __get__ ran for accessor a
VersionsAfterGet(a) ==
    IF a \in Types
    THEN [versions EXCEPT ![HandleOf(a)] = GetVersionsInMro(a)]
    ELSE versions

\* which handles still share the registry's dict after __get__ ran for a
AttachedAfterGet(a) ==
    IF a \in Types THEN [attached EXCEPT ![HandleOf(a)] = FALSE] ELSE attached

----------------------------------------------------------------------------
(* Start-up: the state once the module's decorators have run *)

\* the ids a declaration in a class body may carry
DeclIds == {V100, V200}

Threads == 1..NThreads

\* the lambda each thread passes to add_version
ThreadImplNames == <<"t1", "t2", "t3", "t4", "t5", "t6">>

ThreadImpl(t) == ThreadImplNames[t]

\* the function a key declares at start-up is named after the key
Declared(v, k) == <<[v |-> v, f |-> k]>>

\* History of registrations: for each key, the ids registered for it and not
\* removed since, each with the implementation it was registered with.
Entries(m) == [v \in KeySet(m) |-> Lookup(m, v)]

Record(r, v, f) == [w \in DOMAIN r \cup {v} |-> IF w = v THEN f ELSE r[w]]

Erase(r, v) == [w \in DOMAIN r \ {v} |-> r[w]]

\* the record of a mutating operation: which one, its id and its outcome
Done(op, v, out) == [op |-> op, v |-> v, out |-> out]

\* no mutating operation was performed yet
NoOp == Done("none", NoVersion, "none")

\* the state after start-up, given each key's version map
\* the threads that call an operation
CallThreads == 1..NCallers

\* the entries of a version map, as <<id, implementation>> pairs
PairsOf(m) == {<<m[i].v, m[i].f>> : i \in 1..Len(m)}

\* a thread that is not inside a call: pc is its position in __call__, a the
\* accessor and ver the version of the call, merged, latest and func the
\* locals merged, latest_version and func, out and impl the outcome and the
\* implementation run; seen is history: the entries the handle's map held
\* during the call
NoCall ==
    [pc |-> "idle", a |-> "none", ver |-> NoVersion, merged |-> <<>>,
     latest |-> NoVersion, func |-> NoImpl, out |-> "none", impl |-> NoImpl,
     notices |-> <<>>, seen |-> {}]

\* history: the running calls see the maps vs the step leaves behind
Observe(vs) ==
    [t \in CallThreads |->
        IF call[t].pc \in {"idle", "done"}
        THEN call[t]
        ELSE [call[t] EXCEPT !.seen = @ \cup PairsOf(vs[Target(call[t].a)])]]

InitWith(maps) ==
    /\ registry = maps
    /\ versions = maps
    /\ attached = [k \in Keys |-> TRUE]
    /\ deprecated = {}
    /\ reg = [k \in Keys |-> Entries(maps[k])]
    /\ flagged = {}
    /\ removed = {}
    /\ nops = 0
    /\ pc = [t \in Threads |-> "start"]
    /\ tver = [t \in Threads |-> NoVersion]
    /\ tout = [t \in Threads |-> "none"]
    /\ last = NoOp
    /\ call = [t \in CallThreads |-> NoCall]

\* G declares 1.0.0 and S declares 2.0.0; P and C both declare 1.0.0, or
\* both declare 2.0.0
Init ==
    \E d \in DeclIds :
        InitWith([k \in Keys |->
                     CASE k \in {"P", "C"} -> Declared(d, k)
                       [] k = "S" -> Declared(V200, k)
                       [] OTHER   -> Declared(V100, k)])

\* the free function f declares 1.0.0, or is a handle made directly with
\* VersionedFunction(key) for a key nothing was registered for
InitFree ==
    \E m \in {EmptyMap, Declared(V100, "f")} :
        InitWith([k \in Keys |->
                     CASE k = "f" -> m
                       [] k = "S" -> Declared(V200, k)
                       [] OTHER   -> Declared(V100, k)])

\* the budget of successful mutations of the program under analysis
Limit(k) == IF k \in FreeKeys THEN MaxOps ELSE MaxMethodOps

Budget(k, out) == out = "ok" => nops < Limit(k)

Spend(out) == IF out = "ok" THEN nops + 1 ELSE nops

----------------------------------------------------------------------------
(* The operations, each reached as the program reaches it: a free function *)
(* by its name, a method by attribute access on a type or an instance.     *)

\* @version(v) applied to a function of key k, lines 191-234
Register(k, v, f) ==
    LET out == RegisterOutcome(k, v) IN
    /\ Budget(k, out)
    /\ registry' = IF out = "ok"
                   THEN [registry EXCEPT ![k] = Put(@, v, f)]
                   ELSE registry
    \* the new wrapper shares the registry's dict; a free function's name is
    \* rebound to it, a class keeps the member it was created with
    /\ versions' = IF out = "ok" /\ attached[k]
                   THEN [versions EXCEPT ![k] = Put(@, v, f)]
                   ELSE versions
    /\ reg' = IF out = "ok" THEN [reg EXCEPT ![k] = Record(@, v, f)] ELSE reg
    /\ removed' = IF out = "ok" THEN removed \ {<<k, v>>} ELSE removed
    /\ flagged' = IF out = "ok" THEN flagged \ {<<k, v>>} ELSE flagged
    /\ nops' = Spend(out)
    /\ last' = Done("register", v, out)
    /\ call' = Observe(versions')
    /\ UNCHANGED <<attached, deprecated, pc, tver, tout>>

\* T.method or instance.method alone: __get__, lines 67-80
Access(T) ==
    /\ versions' = VersionsAfterGet(T)
    /\ attached' = AttachedAfterGet(T)
    /\ call' = Observe(versions')
    /\ UNCHANGED <<registry, deprecated, reg, flagged, removed, nops,
                   pc, tver, tout, last>>

\* handle.add_version(v, f), lines 82-105
AddVersion(a, v, f) ==
    LET h   == Target(a)
        vs  == VersionsAfterGet(a)
        att == AttachedAfterGet(a)
        out == AddOutcome(vs[h], v)
    IN
    /\ Budget(h, out)
    /\ versions' = IF out = "ok" THEN [vs EXCEPT ![h] = Put(@, v, f)] ELSE vs
    /\ attached' = att
    /\ registry' = IF out = "ok" /\ att[h]
                   THEN [registry EXCEPT ![h] = Put(@, v, f)]
                   ELSE registry
    /\ reg' = IF out = "ok" THEN [reg EXCEPT ![h] = Record(@, v, f)] ELSE reg
    /\ removed' = IF out = "ok" THEN removed \ {<<h, v>>} ELSE removed
    /\ flagged' = IF out = "ok" THEN flagged \ {<<h, v>>} ELSE flagged
    /\ nops' = Spend(out)
    /\ last' = Done("add", v, out)
    /\ call' = Observe(versions')
    /\ UNCHANGED <<deprecated, pc, tver, tout>>

\* handle.remove_version(v), lines 133-148
RemoveVersion(a, v) ==
    LET h   == Target(a)
        vs  == VersionsAfterGet(a)
        att == AttachedAfterGet(a)
        out == FindOutcome(vs[h], v)
    IN
    /\ Budget(h, out)
    /\ versions' = IF out = "ok" THEN [vs EXCEPT ![h] = Del(@, v)] ELSE vs
    /\ attached' = att
    /\ registry' = IF out = "ok" /\ att[h]
                   THEN [registry EXCEPT ![h] = Del(@, v)]
                   ELSE registry
    /\ reg' = IF out = "ok" THEN [reg EXCEPT ![h] = Erase(@, v)] ELSE reg
    /\ removed' = IF out = "ok" THEN removed \cup {<<h, v>>} ELSE removed
    /\ flagged' = IF out = "ok" THEN flagged \ {<<h, v>>} ELSE flagged
    /\ nops' = Spend(out)
    /\ last' = Done("remove", v, out)
    /\ call' = Observe(versions')
    /\ UNCHANGED <<deprecated, pc, tver, tout>>

\* a deprecate_version that rejects a version already deprecated
DeprecateVersionOnce(a, v) ==
    LET h   == Target(a)
        vs  == VersionsAfterGet(a)
        out == IF Has(vs[h], v) /\ Lookup(vs[h], v) \notin deprecated
               THEN "ok" ELSE "VersionNotFound"
    IN
    /\ Budget(h, out)
    /\ versions' = vs
    /\ attached' = AttachedAfterGet(a)
    /\ deprecated' = IF out = "ok"
                     THEN deprecated \cup {Lookup(vs[h], v)}
                     ELSE deprecated
    /\ flagged' = IF out = "ok" THEN flagged \cup {<<h, v>>} ELSE flagged
    /\ nops' = Spend(out)
    /\ last' = Done("deprecate", v, out)
    /\ call' = Observe(versions')
    /\ UNCHANGED <<registry, reg, removed, pc, tver, tout>>

\* handle.deprecate_version(v), lines 116-131
DeprecateVersion(a, v) ==
    LET h   == Target(a)
        vs  == VersionsAfterGet(a)
        out == FindOutcome(vs[h], v)
    IN
    /\ Budget(h, out)
    /\ versions' = vs
    /\ attached' = AttachedAfterGet(a)
    /\ deprecated' = IF out = "ok"
                     THEN deprecated \cup {Lookup(vs[h], v)}
                     ELSE deprecated
    /\ flagged' = IF out = "ok" THEN flagged \cup {<<h, v>>} ELSE flagged
    /\ nops' = Spend(out)
    /\ last' = Done("deprecate", v, out)
    /\ call' = Observe(versions')
    /\ UNCHANGED <<registry, reg, removed, pc, tver, tout>>

\* the version map of the handle accessor a yields
ViewOf(a) == VersionsAfterGet(a)[Target(a)]

\* what handle(version=ver) reached through accessor a returns in this state
CallVia(a, ver) ==
    CallResult(Target(a), VersionsAfterGet(a)[Target(a)], ver)

\* handle(version=ver), lines 29-65; ver = NoVersion is the unversioned
\* call. The call leaves no trace in the program's state but the merge of
\* the attribute access that reached it; its result is CallVia(a, ver).
Call(a, ver) ==
    /\ CallVia(a, ver).out \in Outcomes
    /\ versions' = VersionsAfterGet(a)
    /\ attached' = AttachedAfterGet(a)
    /\ call' = Observe(versions')
    /\ UNCHANGED <<registry, deprecated, reg, flagged, removed, nops,
                   pc, tver, tout, last>>

\* how an operation is declared: a module-level function, or a member that
\* is a plain method, a classmethod or a staticmethod (lines 195-204)
DeclKinds == {"function", "instance", "classmethod", "staticmethod"}

\* a member is looked up on an instance of a type, or on the type itself
Vias == {"instance", "type"}

\* no object is bound
NoArg == <<>>

\* the instance of type T the member is looked up on; the type T itself
InstanceOf(T) == <<"instance", T>>

TypeObject(T) == <<"type", T>>

\* what the decorator returns for the class body, lines 226-232
Wrapped(kind) ==
    CASE kind = "classmethod"  -> "classmethod(wrapper)"
      [] kind = "staticmethod" -> "staticmethod(wrapper)"
      [] OTHER                 -> "wrapper"

\* __get__(instance, owner), lines 75-80: the object the returned callable
\* is bound to; instance is NoArg when the lookup is on the class
DescrGet(instance) == IF instance = NoArg THEN NoArg ELSE instance

\* the object bound by looking the member up on accessor a: classmethod
\* hands the type to the wrapper's __get__ as the instance, staticmethod
\* returns the wrapper as it is, a function is not looked up on anything
BoundBy(kind, via, a) ==
    CASE kind = "function" -> NoArg
      [] Wrapped(kind) = "staticmethod(wrapper)" -> NoArg
      [] Wrapped(kind) = "classmethod(wrapper)" -> DescrGet(TypeObject(a))
      [] OTHER -> DescrGet(IF via = "instance" THEN InstanceOf(a) ELSE NoArg)

\* a call that hands the bound object to the latest version only
ReceivedLatestOnly(bound, ver) == IF ver = NoVersion THEN bound ELSE NoArg

\* func(*args, **kwargs) of lines 56 and 65: the implicit first argument the
\* selected implementation receives from a callable bound to `bound`
Received(bound, ver) == bound

\* the version map a call through accessor a resolves against: staticmethod
\* returns the wrapper without calling its __get__, so nothing is merged
MapSeen(kind, a) ==
    IF Wrapped(kind) = "staticmethod(wrapper)"
    THEN versions[Target(a)]
    ELSE ViewOf(a)

\* the call a(version=ver) of an operation declared as kind, looked up via
\* an instance or the type: outcome, implementation run, implicit argument
Invoke(kind, via, a, ver) ==
    LET r == CallResult(Target(a), MapSeen(kind, a), ver)
    IN  [out |-> r.out, impl |-> r.impl,
         first |-> IF r.out = "ok"
                   THEN Received(BoundBy(kind, via, a), ver)
                   ELSE NoArg]

\* the ids a method is called, registered and removed with
MethodIds == {V100, V200}

\* the implementation registered on a method after start-up
MethodImpls == {"x"}

\* the program uses the class hierarchy
Next ==
    \/ \E k \in ClassKeys, v \in MethodIds, f \in MethodImpls : Register(k, v, f)
    \/ \E T \in Types : Access(T)
    \/ \E T \in Types, v \in MethodIds, f \in MethodImpls : AddVersion(T, v, f)
    \/ \E T \in Types, v \in MethodIds : RemoveVersion(T, v)
    \/ \E T \in Types, v \in MethodIds : DeprecateVersion(T, v)
    \/ \E T \in Types, ver \in MethodIds \cup {NoVersion} : Call(T, ver)

Spec == Init /\ [][Next]_vars

\* the program uses the free function
NextFree ==
    \/ \E k \in FreeKeys, v \in Ids, f \in NewImpls : Register(k, v, f)
    \/ \E k \in FreeKeys, v \in Ids, f \in NewImpls : AddVersion(k, v, f)
    \/ \E k \in FreeKeys, v \in Ids : RemoveVersion(k, v)
    \/ \E k \in FreeKeys, v \in Ids : DeprecateVersion(k, v)
    \/ \E k \in FreeKeys, ver \in Ids \cup {NoVersion} : Call(k, ver)

SpecFree == InitFree /\ [][NextFree]_vars

----------------------------------------------------------------------------
(* Threads: NThreads threads each call f.add_version(v, impl) once. The   *)
(* method takes no lock, and the interpreter may switch threads between   *)
(* its statements.                                                        *)

\* the ids the threads register
ThreadIds == {V100, V200}

\* a thread enters add_version(v, ThreadImpl(t))
TStart(t, v) ==
    /\ pc[t] = "start"
    /\ tver' = [tver EXCEPT ![t] = v]
    /\ pc' = [pc EXCEPT ![t] = "check"]
    /\ UNCHANGED <<registry, versions, attached, deprecated, reg, flagged,
                   removed, nops, tout, last, call>>

\* line 94: if version_id in self.versions: raise ValueError
TCheck(t) ==
    /\ pc[t] = "check"
    /\ IF Has(versions["f"], tver[t])
       THEN /\ tout' = [tout EXCEPT ![t] = "VersionExists"]
            /\ pc' = [pc EXCEPT ![t] = "done"]
       ELSE /\ pc' = [pc EXCEPT ![t] = "validate"]
            /\ UNCHANGED tout
    /\ UNCHANGED <<registry, versions, attached, deprecated, reg, flagged,
                   removed, nops, tver, last, call>>

\* lines 99-104: pkg_version.parse(version_id)
TValidate(t) ==
    /\ pc[t] = "validate"
    /\ IF IsValid(tver[t])
       THEN /\ pc' = [pc EXCEPT ![t] = "store"]
            /\ UNCHANGED tout
       ELSE /\ tout' = [tout EXCEPT ![t] = "InvalidVersion"]
            /\ pc' = [pc EXCEPT ![t] = "done"]
    /\ UNCHANGED <<registry, versions, attached, deprecated, reg, flagged,
                   removed, nops, tver, last, call>>

\* line 105: self.versions[version_id] = func
TStore(t) ==
    /\ pc[t] = "store"
    /\ versions' = [versions EXCEPT !["f"] = Put(@, tver[t], ThreadImpl(t))]
    /\ registry' = [registry EXCEPT !["f"] = Put(@, tver[t], ThreadImpl(t))]
    /\ reg' = [reg EXCEPT !["f"] = Record(@, tver[t], ThreadImpl(t))]
    /\ tout' = [tout EXCEPT ![t] = "ok"]
    /\ pc' = [pc EXCEPT ![t] = "done"]
    /\ call' = Observe(versions')
    /\ UNCHANGED <<attached, deprecated, flagged, removed, nops, tver, last>>

NextThreads ==
    \/ \E t \in Threads, v \in ThreadIds : TStart(t, v)
    \/ \E t \in Threads : TCheck(t)
    \/ \E t \in Threads : TValidate(t)
    \/ \E t \in Threads : TStore(t)

SpecThreads == InitFree /\ [][NextThreads]_vars

----------------------------------------------------------------------------
(* Calling threads: each thread evaluates one call expression,             *)
(* f(version=ver) or obj.method(version=ver). __get__ and __call__ take no *)
(* lock, and the interpreter may switch threads between their statements.  *)

\* errors of the interpreter that __call__ lets through
CallErrors == {"KeyError", "IndexError"}

\* thread t ends its call with outcome out, having run impl
Finish(t, out, impl, notices) ==
    [call EXCEPT ![t] = [@ EXCEPT !.pc = "done", !.out = out, !.impl = impl,
                                  !.notices = notices]]

\* thread t moves to position p of its call
Goto(t, p) == [call EXCEPT ![t].pc = p]

\* a thread starts evaluating a(version=ver): a method is first looked up
\* on its type (the descriptor's __get__), a free function is called directly
CStart(t, a, ver) ==
    /\ call[t].pc = "idle"
    /\ call' = [call EXCEPT ![t] =
                    [@ EXCEPT !.pc = IF a \in Types THEN "get" ELSE "empty",
                              !.a = a, !.ver = ver,
                              !.seen = PairsOf(versions[Target(a)])]]
    /\ UNCHANGED <<registry, versions, attached, deprecated, reg, flagged,
                   removed, nops, pc, tver, tout, last>>

\* lines 72-73: merged = self._get_versions_in_mro(owner);
\* self.versions = merged, on the handle every accessing type shares
CGet(t) ==
    /\ call[t].pc = "get"
    /\ versions' = VersionsAfterGet(call[t].a)
    /\ attached' = AttachedAfterGet(call[t].a)
    /\ call' = [Observe(versions') EXCEPT
                    ![t] = [@ EXCEPT !.pc = "empty",
                                     !.merged = GetVersionsInMro(call[t].a)]]
    /\ UNCHANGED <<registry, deprecated, reg, flagged, removed, nops,
                   pc, tver, tout, last>>

\* line 45: if not self.versions: raise ValueError
CEmpty(t) ==
    /\ call[t].pc = "empty"
    /\ call' = IF Len(versions[Target(call[t].a)]) = 0
               THEN Finish(t, "NoVersionsFound", NoImpl, <<>>)
               ELSE Goto(t, IF call[t].ver # NoVersion THEN "check"
                                                       ELSE "latest")
    /\ UNCHANGED <<registry, versions, attached, deprecated, reg, flagged,
                   removed, nops, pc, tver, tout, last>>

\* line 49: if version in self.versions, else VersionNotFoundError
CCheck(t) ==
    /\ call[t].pc = "check"
    /\ call' = IF Has(versions[Target(call[t].a)], call[t].ver)
               THEN Goto(t, "fetch")
               ELSE Finish(t, "VersionNotFound", NoImpl, <<>>)
    /\ UNCHANGED <<registry, versions, attached, deprecated, reg, flagged,
                   removed, nops, pc, tver, tout, last>>

\* line 50: func = self.versions[version]
CFetch(t) ==
    /\ call[t].pc = "fetch"
    /\ call' = IF Has(versions[Target(call[t].a)], call[t].ver)
               THEN [call EXCEPT ![t] =
                        [@ EXCEPT !.pc = "run",
                                  !.func = Lookup(versions[Target(call[t].a)],
                                                  call[t].ver)]]
               ELSE Finish(t, "KeyError", NoImpl, <<>>)
    /\ UNCHANGED <<registry, versions, attached, deprecated, reg, flagged,
                   removed, nops, pc, tver, tout, last>>

\* lines 51-56: warn if func carries _deprecated, then return func(...)
CRun(t) ==
    /\ call[t].pc = "run"
    /\ call' = Finish(t, "ok", call[t].func,
                      IF call[t].func \in deprecated
                      THEN <<Notice(Target(call[t].a), call[t].ver)>>
                      ELSE <<>>)
    /\ UNCHANGED <<registry, versions, attached, deprecated, reg, flagged,
                   removed, nops, pc, tver, tout, last>>

\* lines 63 and 157: _get_latest_version checks for the empty map again
CLatestCheck(t) ==
    /\ call[t].pc = "latest"
    /\ call' = IF Len(versions[Target(call[t].a)]) = 0
               THEN Finish(t, "NoVersionsFound", NoImpl, <<>>)
               ELSE Goto(t, "sort")
    /\ UNCHANGED <<registry, versions, attached, deprecated, reg, flagged,
                   removed, nops, pc, tver, tout, last>>

\* lines 161-166: sorted(self.versions.keys(), ...)[0]
CSort(t) ==
    /\ call[t].pc = "sort"
    /\ call' = IF Len(versions[Target(call[t].a)]) = 0
               THEN Finish(t, "IndexError", NoImpl, <<>>)
               ELSE [call EXCEPT ![t] =
                        [@ EXCEPT !.pc = "call",
                                  !.latest = GetLatestVersion(
                                                 versions[Target(call[t].a)])]]
    /\ UNCHANGED <<registry, versions, attached, deprecated, reg, flagged,
                   removed, nops, pc, tver, tout, last>>

\* line 65: return self.versions[latest_version](...)
CFetchLatest(t) ==
    /\ call[t].pc = "call"
    /\ call' = IF Has(versions[Target(call[t].a)], call[t].latest)
               THEN Finish(t, "ok",
                           Lookup(versions[Target(call[t].a)], call[t].latest),
                           <<>>)
               ELSE Finish(t, "KeyError", NoImpl, <<>>)
    /\ UNCHANGED <<registry, versions, attached, deprecated, reg, flagged,
                   removed, nops, pc, tver, tout, last>>

\* threads call the free function while others add and remove its versions
NextReader ==
    \/ \E t \in CallThreads, ver \in ThreadIds \cup {NoVersion} :
           CStart(t, "f", ver)
    \/ \E t \in CallThreads : CEmpty(t)
    \/ \E t \in CallThreads : CCheck(t)
    \/ \E t \in CallThreads : CFetch(t)
    \/ \E t \in CallThreads : CRun(t)
    \/ \E t \in CallThreads : CLatestCheck(t)
    \/ \E t \in CallThreads : CSort(t)
    \/ \E t \in CallThreads : CFetchLatest(t)
    \/ \E k \in FreeKeys, v \in ThreadIds, f \in MethodImpls :
           AddVersion(k, v, f)
    \/ \E k \in FreeKeys, v \in ThreadIds : RemoveVersion(k, v)

SpecReader == InitFree /\ [][NextReader]_vars

\* threads call the member through the types of the class hierarchy
NextShared ==
    \/ \E t \in CallThreads, T \in Types, ver \in MethodIds \cup {NoVersion} :
           CStart(t, T, ver)
    \/ \E t \in CallThreads : CGet(t)
    \/ \E t \in CallThreads : CEmpty(t)
    \/ \E t \in CallThreads : CCheck(t)
    \/ \E t \in CallThreads : CFetch(t)
    \/ \E t \in CallThreads : CRun(t)
    \/ \E t \in CallThreads : CLatestCheck(t)
    \/ \E t \in CallThreads : CSort(t)
    \/ \E t \in CallThreads : CFetchLatest(t)

SpecShared == Init /\ [][NextShared]_vars

----------------------------------------------------------------------------
(* Reference notions the properties below are stated with *)

Range(s) == {s[i] : i \in 1..Len(s)}

\* the classes of T's linearized ancestor chain that declare the member
Chain(T) == Range(MRO(T)) \cap ClassKeys

\* the most-derived class of T's chain that registers id v
MostDerived(T, v) ==
    LET s == MRO(T)
        i == CHOOSE i \in 1..Len(s) :
                 /\ s[i] \in ClassKeys /\ v \in DOMAIN reg[s[i]]
                 /\ \A j \in 1..(i - 1) :
                        ~(s[j] \in ClassKeys /\ v \in DOMAIN reg[s[j]])
    IN  s[i]

\* the ids registered by the classes of T's chain
EffectiveIds(T) == UNION {DOMAIN reg[c] : c \in Chain(T)}

\* the effective version set of T: the union over T's chain, the
\* most-derived registration winning where ids collide
EffectiveEntries(T) ==
    [v \in EffectiveIds(T) |-> reg[MostDerived(T, v)][v]]

\* the types other types derive from
BaseTypes == {T \in Types : \E D \in Types \ {T} : T \in Range(MRO(D))}

\* s is sorted ascending by version precedence
IsAscending(s) == \A i, j \in 1..Len(s) : i < j => ~VersionLess(s[j], s[i])

----------------------------------------------------------------------------
(* C1: for a version id registered by more than one class of T's ancestor *)
(* chain, the view obtained by attribute access through T maps the id to   *)
(* the implementation registered by the most-derived of those classes.     *)

C1_MostDerivedWins ==
    [][\A T \in Types :
          Access(T) =>
              \A v \in KeySet(versions'[HandleOf(T)]) :
                  Cardinality({c \in Chain(T) : v \in DOMAIN reg[c]}) > 1
                      => Lookup(versions'[HandleOf(T)], v)
                             = EffectiveEntries(T)[v]]_vars

(* C2: when threads concurrently add the same, not yet registered id to   *)
(* the same key, exactly one add succeeds, the others fail with            *)
(* VersionExists, and the id resolves to the winner's implementation.      *)

C2_ExactlyOneAddSucceeds ==
    (\A t \in Threads : pc[t] = "done") =>
        \A v \in ThreadIds :
            LET callers == {t \in Threads : tver[t] = v}
                winners == {t \in callers : tout[t] = "ok"}
            IN  Lookup(versions["f"], v) \in {ThreadImpl(t) : t \in callers}
                    => /\ Cardinality(winners) = 1
                       /\ \A t \in callers \ winners :
                              tout[t] = "VersionExists"
                       /\ \A t \in winners :
                              CallResult("f", versions["f"], v).impl
                                  = ThreadImpl(t)

(* C3: the ids visible through attribute access on T are the union of the *)
(* ids registered by the classes of T's chain; the unversioned call runs   *)
(* the latest of that union; an explicit request for an id registered only *)
(* by one ancestor runs that ancestor's implementation.                    *)

C3_ViewIsUnionOfChain ==
    [][\A T \in Types :
          Access(T) =>
              LET h == HandleOf(T)
                  m == versions'[h]
              IN  /\ KeySet(m) = EffectiveIds(T)
                  /\ EffectiveIds(T) # {} =>
                        /\ CallResult(h, m, NoVersion).out = "ok"
                        /\ GetLatestVersion(m) \in EffectiveIds(T)
                        /\ \A w \in EffectiveIds(T) :
                               ~VersionLess(GetLatestVersion(m), w)
                  /\ \A c \in Chain(T) \ {T} :
                        \A v \in DOMAIN reg[c] :
                            {k \in Chain(T) : v \in DOMAIN reg[k]} = {c}
                                => CallResult(h, m, v).impl = reg[c][v]]_vars

(* C4: whatever accesses were made through descendants, the view obtained *)
(* through a base type holds exactly the ids registered on the base type   *)
(* and its ancestors, never an id registered only by a descendant or by a  *)
(* sibling base of a descendant.                                           *)

C4_BaseViewIsItsOwn ==
    [][\A T \in BaseTypes :
          Access(T) => KeySet(versions'[HandleOf(T)]) = EffectiveIds(T)]_vars

(* C5: an attribute access leaves the version map stored on every class's *)
(* declared operation, and the registry, unchanged.                        *)

C5_AccessChangesNoMap ==
    [][\A T \in Types :
          Access(T) => versions' = versions /\ registry' = registry]_vars

(* C6: once remove(handle, v) has succeeded and until v is added again, an *)
(* explicit call for v fails and v is absent from the available versions,  *)
(* however the handle is obtained: by the free function's name, or by a    *)
(* new attribute access on the declaring type or on a derived type.        *)

C6_RemovedStaysGone ==
    \A a \in Accessors, v \in Ids :
        LET keys == IF a \in Types THEN Chain(a) ELSE {a}
            ids  == IF a \in Types THEN EffectiveIds(a) ELSE DOMAIN reg[a]
        IN  (v \notin ids /\ \E k \in keys : <<k, v>> \in removed)
                => /\ CallVia(a, v).out # "ok"
                   /\ v \notin Range(AvailableVersions(ViewOf(a)))
                   /\ ~Has(ViewOf(a), v)

(* C7: for a key with no version (all removed, or none ever registered),  *)
(* the unversioned call fails with NoVersionsFound and a call with an      *)
(* explicit version fails with VersionNotFound.                            *)

C7_EmptyKeyErrors ==
    \A k \in FreeKeys :
        Len(versions[k]) = 0 =>
            /\ CallVia(k, NoVersion).out = "NoVersionsFound"
            /\ \A v \in Ids : CallVia(k, v).out = "VersionNotFound"

(* C8: after any sequence of successful and failed add and remove         *)
(* operations on a key, in whatever order the ids were inserted,           *)
(* available_versions is sorted ascending by version precedence and holds  *)
(* exactly the ids added and not removed since, each once.                 *)

C8_AvailableSortedExact ==
    \A k \in FreeKeys :
        LET s == AvailableVersions(versions[k])
        IN  /\ IsAscending(s)
            /\ Range(s) = DOMAIN reg[k]
            /\ Len(s) = Cardinality(DOMAIN reg[k])

\* ids were inserted in descending order and are listed ascending
C8_Witness ==
    /\ KeySeq(versions["f"]) = <<V200, V100>>
    /\ AvailableVersions(versions["f"]) = <<V100, V200>>

(* C9: the version an unversioned call chooses is a maximum of            *)
(* available_versions under the version ordering, and the unversioned      *)
(* call fails with NoVersionsFound exactly when the version map is empty.  *)

C9_LatestIsMaximum ==
    \A a \in Accessors :
        LET m == ViewOf(a)
            r == CallVia(a, NoVersion)
            s == AvailableVersions(m)
        IN  /\ r.out = "NoVersionsFound" <=> Len(m) = 0
            /\ Len(m) > 0 =>
                  /\ r.out = "ok"
                  /\ GetLatestVersion(m) \in Range(s)
                  /\ VersionEq(GetLatestVersion(m), s[Len(s)])
                  /\ \A i \in 1..Len(s) : ~VersionLess(GetLatestVersion(m), s[i])
                  /\ r.impl = Lookup(m, GetLatestVersion(m))

\* the latest version was inserted first, before a lower one
C9_Witness ==
    /\ Len(versions["f"]) >= 2
    /\ KeySeq(versions["f"])[1] = V200
    /\ CallVia("f", NoVersion).impl = Lookup(versions["f"], V200)

(* C10: an explicit call for a version whose deprecated flag is set runs  *)
(* that version's implementation and emits exactly one notice naming the   *)
(* operation and the version, on every such call; an explicit call for a   *)
(* version that is not deprecated emits none.                              *)

C10_NoticeIffDeprecated ==
    \A k \in FreeKeys, v \in Ids :
        LET r == CallVia(k, v)
        IN  r.out = "ok" =>
                /\ r.impl = reg[k][v]
                /\ r.notices = IF <<k, v>> \in flagged
                               THEN <<Notice(k, v)>>
                               ELSE <<>>

(* C11: after any sequence of deprecate operations, the unversioned call  *)
(* still runs the implementation of a greatest registered version, also    *)
(* when that version is deprecated, and emits no deprecation notice.       *)

C11_LatestIgnoresDeprecation ==
    \A k \in FreeKeys :
        LET r == CallVia(k, NoVersion)
        IN  DOMAIN reg[k] # {} =>
                /\ r.out = "ok"
                /\ r.notices = <<>>
                /\ \E g \in DOMAIN reg[k] :
                       /\ \A w \in DOMAIN reg[k] : ~VersionLess(g, w)
                       /\ r.impl = reg[k][g]

\* the greatest of two versions was deprecated and is what the call runs
C11_Witness ==
    /\ last = Done("deprecate", V200, "ok")
    /\ DOMAIN reg["f"] = {V100, V200}
    /\ <<"f", V200>> \in flagged
    /\ CallVia("f", NoVersion).impl = reg["f"][V200]
    /\ CallVia("f", NoVersion).impl \in deprecated

(* C12: a registration (by the decorator or by add_version) of a malformed *)
(* id fails with InvalidVersion, one of an id already present under the    *)
(* key fails with VersionExists, and either leaves the registry and every  *)
(* handle's version map exactly as they were.                              *)

C12_FailedRegistrationChangesNothing ==
    [][\A k \in FreeKeys, v \in Ids, f \in NewImpls :
          (Register(k, v, f) \/ AddVersion(k, v, f)) =>
              /\ ~IsValid(v) =>
                     /\ last'.out = "InvalidVersion"
                     /\ registry' = registry /\ versions' = versions
              /\ v \in DOMAIN reg[k] =>
                     /\ last'.out = "VersionExists"
                     /\ registry' = registry /\ versions' = versions]_vars

\* add_version of a present id has just failed, the entry is as it was
C12_Witness ==
    /\ last = Done("add", V100, "VersionExists")
    /\ Has(versions["f"], V100)
    /\ Lookup(versions["f"], V100) = reg["f"][V100]

(* C13: on a version map that is not empty, a call with an explicit       *)
(* version v runs exactly the implementation registered under v when v is  *)
(* in the map, and fails with VersionNotFound, running no implementation,  *)
(* when v is not in it. (The call assigns nothing: Call changes no         *)
(* variable of a free function.)                                           *)

C13_ExplicitCallRunsRegistered ==
    \A k \in FreeKeys, v \in Ids :
        LET r == CallVia(k, v)
        IN  DOMAIN reg[k] # {} =>
                IF v \in DOMAIN reg[k]
                THEN r.out = "ok" /\ r.impl = reg[k][v]
                ELSE r.out = "VersionNotFound" /\ r.impl = NoImpl

\* 2.0.0 was just removed: the call for 1.0.0 runs, the call for 2.0.0 fails
C13_Witness ==
    /\ last = Done("remove", V200, "ok")
    /\ DOMAIN reg["f"] = {V100}
    /\ CallVia("f", V100).impl = reg["f"][V100]
    /\ CallVia("f", V200).out = "VersionNotFound"

(* C14: deprecate of a present version succeeds and sets its deprecated   *)
(* flag; deprecating a version already deprecated succeeds again and       *)
(* leaves the maps and the flags as they were; deprecate of an absent      *)
(* version fails with VersionNotFound and changes nothing.                 *)

C14_DeprecateIdempotent ==
    [][\A k \in FreeKeys, v \in Ids :
          DeprecateVersion(k, v) =>
              /\ versions' = versions /\ registry' = registry
              /\ IF v \in DOMAIN reg[k]
                 THEN /\ last'.out = "ok"
                      /\ reg[k][v] \in deprecated'
                      /\ CallVia(k, v).impl = reg[k][v]
                      /\ <<k, v>> \in flagged =>
                             deprecated' = deprecated /\ flagged' = flagged
                 ELSE /\ last'.out = "VersionNotFound"
                      /\ deprecated' = deprecated /\ flagged' = flagged]_vars

\* the declared version 1.0.0 was deprecated twice, and nothing else done
C14_Witness ==
    /\ last = Done("deprecate", V100, "ok")
    /\ nops = 2
    /\ reg["f"] = Entries(Declared(V100, "f"))
    /\ removed = {}
    /\ flagged = {<<"f", V100>>}

(* C15: remove of an absent version fails with VersionNotFound and leaves *)
(* the version map unchanged; remove of a present version deletes that     *)
(* entry and no other, so that removing the same id again fails with       *)
(* VersionNotFound.                                                        *)

C15_RemoveExactlyOne ==
    [][\A k \in FreeKeys, v \in Ids :
          RemoveVersion(k, v) =>
              IF v \in DOMAIN reg[k]
              THEN /\ last'.out = "ok"
                   /\ KeySet(versions'[k]) = KeySet(versions[k]) \ {v}
                   /\ \A w \in KeySet(versions'[k]) :
                          Lookup(versions'[k], w) = Lookup(versions[k], w)
                   /\ registry'[k] = versions'[k]
                   /\ FindOutcome(versions'[k], v) = "VersionNotFound"
              ELSE /\ last'.out = "VersionNotFound"
                   /\ versions' = versions /\ registry' = registry]_vars

\* 1.0.0 was removed, nothing else succeeded, and removing it again failed
C15_Witness ==
    /\ last = Done("remove", V100, "VersionNotFound")
    /\ nops = 1
    /\ removed = {<<"f", V100>>}
    /\ ~Has(versions["f"], V100)

(* C16: once a version was removed through a base type's handle and no    *)
(* class of a derived type's chain registers the id, no view obtained      *)
(* through the derived type holds the id, whether or not the derived type  *)
(* was accessed before the removal.                                        *)

C16_BaseRemovalReflected ==
    \A D \in Types, v \in MethodIds :
        (/\ \E b \in Chain(D) \ {D} : <<b, v>> \in removed
         /\ v \notin EffectiveIds(D))
            => /\ ~Has(ViewOf(D), v)
               /\ v \notin Range(AvailableVersions(ViewOf(D)))

\* pairs of declaring classes with no ancestor relation that register a
\* common version id
UnrelatedPairs ==
    {p \in ClassKeys \X ClassKeys :
        /\ p[1] \notin Chain(p[2]) /\ p[2] \notin Chain(p[1])
        /\ DOMAIN reg[p[1]] \cap DOMAIN reg[p[2]] # {}}

\* the view through A holds an implementation registered by B and by no
\* class of A's chain
HoldsForeign(A, B) ==
    \E w \in KeySet(ViewOf(A)) :
        /\ w \in DOMAIN reg[B]
        /\ Lookup(ViewOf(A), w) = reg[B][w]
        /\ \A c \in Chain(A) :
               w \in DOMAIN reg[c] => reg[c][w] # Lookup(ViewOf(A), w)

(* C17: two types with no ancestor relation that declare the member with  *)
(* a common version id are independent: the view through one never holds   *)
(* the other's implementation, and add, remove or deprecate through one    *)
(* leaves the other's view and call results unchanged.                     *)

C17_UnrelatedTypesIndependent ==
    [][\A p \in UnrelatedPairs' :
          /\ ~HoldsForeign(p[1], p[2])'
          /\ \A v \in MethodIds, f \in MethodImpls :
                 (\/ AddVersion(p[2], v, f)
                  \/ RemoveVersion(p[2], v)
                  \/ DeprecateVersion(p[2], v))
                     => /\ ViewOf(p[1])' = ViewOf(p[1])
                        /\ \A w \in MethodIds \cup {NoVersion} :
                               CallVia(p[1], w)' = CallVia(p[1], w)]_vars

\* the accessors an operation of a declaration kind is reached through
AccessorsOf(kind) == IF kind = "function" THEN FreeKeys ELSE Types

\* the ids an operation of a declaration kind is called with
IdsOf(kind) == IF kind = "function" THEN Ids ELSE MethodIds

(* C18: for every version, selected as latest or requested explicitly,    *)
(* the implementation that runs is the one version resolution selects and  *)
(* receives the implicit first argument of the declaration kind: the       *)
(* accessing instance for an instance method, the accessing type for a     *)
(* classmethod, none for a plain function or a staticmethod.               *)

C19_DeprecatedListedExactly ==
    \A k \in FreeKeys :
        LET s == DeprecatedVersions(versions[k])
            d == {v \in DOMAIN reg[k] : <<k, v>> \in flagged}
        IN  /\ IsAscending(s)
            /\ Range(s) = d
            /\ Len(s) = Cardinality(d)

(* C20: the call checks emptiness first: on an empty version map it fails *)
(* with NoVersionsFound whether or not an explicit version was given, and  *)
(* VersionNotFound is the outcome only on a map that is not empty, for an  *)
(* explicit version that is absent from it.                                *)

C21_NoEqualIds ==
    \A k \in FreeKeys :
        /\ \A v, w \in KeySet(versions[k]) : VersionEq(v, w) => v = w
        /\ Len(versions[k]) > 0 =>
               \A w \in KeySet(versions[k]) \ {GetLatestVersion(versions[k])} :
                   VersionLess(w, GetLatestVersion(versions[k]))

(* C22: after a version of key k was removed through any handle of k,     *)
(* also one obtained by attribute access, the entry is gone from the       *)
(* registry slot of k and registering the id for k again succeeds; and     *)
(* when a version is registered for k, the unversioned call through k      *)
(* succeeds.                                                               *)

C22_RemovedLeavesRegistry ==
    \A k \in ClassKeys :
        /\ \A v \in MethodIds :
               (<<k, v>> \in removed /\ v \notin DOMAIN reg[k])
                   => /\ ~Has(registry[k], v)
                      /\ RegisterOutcome(k, v) = "ok"
        /\ DOMAIN reg[k] # {} => CallVia(k, NoVersion).out = "ok"

(* C23: the view obtained through a type that declares the member as      *)
(* classmethod or staticmethod holds the union of the ids registered by    *)
(* the classes of the type's chain, as for an instance method.             *)

C23_WrappedKindsMerge ==
    \A kind \in {"classmethod", "staticmethod"}, T \in ClassKeys :
        KeySet(MapSeen(kind, T)) = EffectiveIds(T)

\* the deprecated flag of entry (k, w) as a call reads it in map m
FlagSet(m, w, dep) == Lookup(m, w) \in dep

(* C24: deprecate(key, v) changes the deprecated flag of the entry        *)
(* (key, v) only: the flag of every other entry, under the same key or     *)
(* another, is unchanged, also when one implementation is registered under *)
(* several ids.                                                            *)

C24_DeprecateTouchesOneEntry ==
    [][\A k \in FreeKeys, v \in Ids :
          DeprecateVersion(k, v) =>
              \A k2 \in Keys :
                  \A w \in KeySet(versions[k2]) :
                      <<k2, w>> # <<k, v>> =>
                          (FlagSet(versions'[k2], w, deprecated')
                              <=> FlagSet(versions[k2], w, deprecated))]_vars

(* C25: a newly registered entry is not deprecated: while the latest      *)
(* operation on the function is a successful add or registration of v, an  *)
(* explicit call for v emits no deprecation notice, whatever happened to   *)
(* its implementation before.                                              *)

C25_NewEntryNotDeprecated ==
    \A k \in FreeKeys :
        (last.op \in {"add", "register"} /\ last.out = "ok")
            => CallVia(k, last.v).notices = <<>>

(* C28: add_version through a handle obtained on a derived type T fails    *)
(* with VersionExists only when T's own class registers the id: an id that *)
(* only an ancestor registers can be added on T.                           *)

C28_AncestorIdCanBeAdded ==
    [][\A T \in Types, v \in MethodIds, f \in MethodImpls :
          (AddVersion(T, v, f) /\ v \notin DOMAIN reg[HandleOf(T)])
              => last'.out = "ok"]_vars

(* C26: a thread that calls a version of a key while other threads add and *)
(* remove versions of the key ends with an entry the map held at some      *)
(* point during the call, registered under the id it resolved, or with     *)
(* VersionNotFound or NoVersionsFound, and with no other error.            *)

C26_ReaderSeesAnEntryOrFails ==
    \A t \in CallThreads :
        call[t].pc = "done" =>
            /\ call[t].out \in {"ok", "VersionNotFound", "NoVersionsFound"}
            /\ call[t].out = "ok" =>
                   \E e \in call[t].seen :
                       /\ e[2] = call[t].impl
                       /\ call[t].ver # NoVersion => e[1] = call[t].ver

(* C27: a thread that accesses and calls the member through a type gets    *)
(* the result of resolving against the merge its own access computed for   *)
(* its accessing type, whatever another thread accesses through another    *)
(* type meanwhile.                                                         *)

C27_CallUsesOwnMerge ==
    \A t \in CallThreads :
        (call[t].pc = "done" /\ call[t].a \in Types) =>
            LET r == CallResult(Target(call[t].a), call[t].merged,
                                call[t].ver)
            IN  /\ call[t].out = r.out
                /\ call[t].impl = r.impl

====
